---- MODULE Spec2Model ----
(***************************************************************************)
(* Model of bin/optimize.js: the interactive run of optimize-public        *)
(* (scan of public/, selection, strategy, confirmation, batch loop).       *)
(*                                                                         *)
(* Strings are sequences of one-character strings, so that the path        *)
(* arithmetic of the program (template-literal concatenation, path.join,   *)
(* path.dirname, path.extname, path.basename) is computed character by     *)
(* character, as node computes it on a POSIX platform.                     *)
(***************************************************************************)
EXTENDS Integers, Sequences, FiniteSets, TLC

VARIABLES
    fsDirs,         \* the directories on disk (absolute paths)
    fsFiles,        \* the regular files on disk: records [path, data]
    pc,             \* position of main()
    exitCode,       \* process exit status, -1 while the process runs
    imageFiles,     \* const imageFiles
    selectionMode,  \* answer of the first prompt
    dirs,           \* const dirs, the choices of the folder prompt
    selectedDirs,   \* answer of the folder prompt
    selectedFiles,  \* let selectedFiles
    strategy,       \* answer of the strategy prompt
    suffix,         \* let suffix
    confirm,        \* answer of the confirmation prompt ("none" before it)
    idx,            \* position of the for..of iterator in selectedFiles
    outputPath,     \* let outputPath of the current iteration
    successCount,   \* let successCount
    failCount,      \* let failCount
    attempts,       \* the calls of optimizeImage so far, with their outcome
    fatal           \* the error that reached main().catch (<<>> if none)

vars == <<fsDirs, fsFiles, pc, exitCode, imageFiles, selectionMode, dirs,
          selectedDirs, selectedFiles, strategy, suffix, confirm, idx,
          outputPath, successCount, failCount, attempts, fatal>>

(***************************************************************************)
(* Bounds.                                                                 *)
(***************************************************************************)
\* at most this many image files lie under public/ when the run starts
MaxFiles == 4

(***************************************************************************)
(* String literals.                                                        *)
(***************************************************************************)
sWebp      == <<".", "w", "e", "b", "p">>
sPublic    == <<"p", "u", "b", "l", "i", "c">>
sDot       == <<".">>
sSlash     == <<"/">>
sOptimized == <<"_", "o", "p", "t", "i", "m", "i", "z", "e", "d">>

\* process.cwd() of the run
cwd == <<"/", "w">>

(***************************************************************************)
(* Helpers on strings.                                                     *)
(***************************************************************************)
Max(S) == CHOOSE x \in S : \A y \in S : y <= x

Positions(s, c) == {i \in 1..Len(s) : s[i] = c}

LastIndexOf(s, c) == IF Positions(s, c) = {} THEN 0 ELSE Max(Positions(s, c))

EndsWith(s, t) ==
    /\ Len(t) <= Len(s)
    /\ SubSeq(s, Len(s) - Len(t) + 1, Len(s)) = t

StartsWith(s, t) ==
    /\ Len(t) <= Len(s)
    /\ SubSeq(s, 1, Len(t)) = t

\* s.split('/')
Split(s) ==
    LET pos == Positions(s, "/")
        n == Cardinality(pos)
        nth(k) == IF k = 0 THEN 0
                  ELSE IF k = n + 1 THEN Len(s) + 1
                  ELSE CHOOSE p \in pos : Cardinality({q \in pos : q < p}) = k - 1
    IN [k \in 1..(n + 1) |-> SubSeq(s, nth(k - 1) + 1, nth(k) - 1)]

RECURSIVE JoinSegs(_)
\* segs.join('/')
JoinSegs(segs) ==
    IF segs = <<>> THEN <<>>
    ELSE IF Len(segs) = 1 THEN segs[1]
    ELSE segs[1] \o sSlash \o JoinSegs(Tail(segs))

(***************************************************************************)
(* node's path module (posix).                                             *)
(***************************************************************************)
RECURSIVE normalizeString(_, _, _)
\* the segments of a path with '.', '' and '..' resolved; above-root '..'
\* segments are kept only when allowAboveRoot
normalizeString(segs, allowAboveRoot, res) ==
    IF segs = <<>> THEN res
    ELSE LET seg == Head(segs)
             rest == Tail(segs)
         IN IF seg = <<>> \/ seg = sDot
            THEN normalizeString(rest, allowAboveRoot, res)
            ELSE IF seg = <<".", ".">>
            THEN IF res # <<>> /\ res[Len(res)] # <<".", ".">>
                 THEN normalizeString(rest, allowAboveRoot, SubSeq(res, 1, Len(res) - 1))
                 ELSE IF allowAboveRoot
                 THEN normalizeString(rest, allowAboveRoot, Append(res, seg))
                 ELSE normalizeString(rest, allowAboveRoot, res)
            ELSE normalizeString(rest, allowAboveRoot, Append(res, seg))

\* path.normalize
normalize(p) ==
    IF p = <<>> THEN sDot
    ELSE LET isAbsolute == p[1] = "/"
             trailingSeparator == p[Len(p)] = "/"
             body == JoinSegs(normalizeString(Split(p), ~isAbsolute, <<>>))
             body2 == IF body = <<>> /\ ~isAbsolute THEN sDot ELSE body
             body3 == IF body2 # <<>> /\ trailingSeparator THEN body2 \o sSlash ELSE body2
         IN IF isAbsolute THEN sSlash \o body3 ELSE body3

\* path.join(a, b)
join(a, b) ==
    LET joined == IF a = <<>> THEN b
                  ELSE IF b = <<>> THEN a
                  ELSE a \o sSlash \o b
    IN IF joined = <<>> THEN sDot ELSE normalize(joined)

\* path.join(a, b, c)
join3(a, b, c) ==
    LET ab == IF a = <<>> THEN b
              ELSE IF b = <<>> THEN a
              ELSE a \o sSlash \o b
        joined == IF ab = <<>> THEN c
                  ELSE IF c = <<>> THEN ab
                  ELSE ab \o sSlash \o c
    IN IF joined = <<>> THEN sDot ELSE normalize(joined)

\* a path without its trailing separators (the root stays "/")
RECURSIVE stripTrailing(_)
stripTrailing(p) ==
    IF Len(p) > 1 /\ p[Len(p)] = "/" THEN stripTrailing(SubSeq(p, 1, Len(p) - 1)) ELSE p

\* path.dirname
dirname(p0) ==
    LET p == stripTrailing(p0)
        k == LastIndexOf(p, "/")
    IN IF p = <<>> THEN sDot
       ELSE IF k = 0 THEN sDot
       ELSE IF k = 1 THEN sSlash
       ELSE stripTrailing(SubSeq(p, 1, k - 1))

\* the last portion of a path: path.basename(p)
lastPortion(p0) ==
    LET p == stripTrailing(p0)
    IN SubSeq(p, LastIndexOf(p, "/") + 1, Len(p))

\* path.extname: from the last '.' of the last portion, '' when there is
\* none or when it is the first character of the portion
extname(p) ==
    LET b == lastPortion(p)
        k == LastIndexOf(b, ".")
    IN IF k <= 1 \/ b = <<".", ".">> THEN <<>> ELSE SubSeq(b, k, Len(b))

\* path.basename(p, ext)
basename(p, ext) ==
    LET b == lastPortion(p)
    IN IF ext # <<>> /\ b # ext /\ EndsWith(b, ext)
       THEN SubSeq(b, 1, Len(b) - Len(ext))
       ELSE b

\* const publicDir = path.join(process.cwd(), 'public')
publicDir == join(cwd, sPublic)


(***************************************************************************)
(* The files the disk may hold under public/ when the run starts, in the   *)
(* order in which the directory walk of glob.sync lists them.              *)
(***************************************************************************)
fHeroJpg  == <<"i", "m", "a", "g", "e", "s", "/", "h", "e", "r", "o", ".", "j", "p", "g">>
fHeroPng  == <<"i", "m", "a", "g", "e", "s", "/", "h", "e", "r", "o", ".", "p", "n", "g">>
fIconSvg  == <<"i", "m", "a", "g", "e", "s", "/", "i", "c", "o", "n", ".", "s", "v", "g">>
fSubGif   == <<"i", "m", "a", "g", "e", "s", "/", "s", "u", "b", "/", "x", ".", "g", "i", "f">>
fLogoPng  == <<"l", "o", "g", "o", ".", "p", "n", "g">>
\* a text file, no image
fNotes    == <<"n", "o", "t", "e", "s", ".", "t", "x", "t">>
\* a regular file that carries the name of an output directory
fBlocker  == <<"i", "m", "a", "g", "e", "s", "_", "o">>

Candidates == <<fHeroJpg, fHeroPng, fIconSvg, fSubGif, fLogoPng>>
\* the output an earlier run left beside images/hero.jpg
fOldWebp  == <<"i", "m", "a", "g", "e", "s", "/", "h", "e", "r", "o", ".", "w", "e", "b", "p">>

Others     == <<fBlocker, fNotes, fOldWebp>>
WalkOrder  == Candidates \o Others

\* the answers the suffix prompt is given: its default, a short one, the
\* empty input, one that holds a path separator and the name '..'
sShort     == <<"_", "o">>
sNested    == <<"/", "x">>
sDotDot    == <<".", ".">>
Suffixes   == {sOptimized, sShort, <<>>, sNested, sDotDot}

Range(seq) == {seq[i] : i \in 1..Len(seq)}

\* the elements of seq at the positions S, in the order of seq
Pick(seq, S) ==
    LET nth(k) == CHOOSE p \in S : Cardinality({q \in S : q < p}) = k - 1
    IN [k \in 1..Cardinality(S) |-> seq[nth(k)]]

(***************************************************************************)
(* The file system.                                                        *)
(***************************************************************************)
\* an absolute path and its ancestors
PathPrefixes(p) ==
    LET segs == normalizeString(Split(p), FALSE, <<>>)
    IN {sSlash \o JoinSegs(SubSeq(segs, 1, k)) : k \in 0..Len(segs)}

IsFile(files, p) == \E e \in files : e.path = p

\* what a file that was on disk before the run holds
OrigData(p) == <<"orig">> \o p
\* what sharp(inputPath).webp({quality}).toFile(...) writes
WebpData(inputPath) == <<"webp">> \o inputPath

\* fs.existsSync(p)
existsSync(p) == p \in fsDirs \/ IsFile(fsFiles, p)

\* fs.ensureDir(p) rejects when p or one of its ancestors is a regular file
ensureDirRejects(p) == \E q \in PathPrefixes(p) : IsFile(fsFiles, q)

\* the directories on disk once fs.ensureDir(p) has resolved
ensureDirResult(p) == fsDirs \cup PathPrefixes(p)

\* the files on disk once toFile(outputPath) has resolved
toFileResult(inputPath, outPath) ==
    {e \in fsFiles : e.path # outPath}
        \cup {[path |-> outPath, data |-> WebpData(inputPath)]}

\* the files on disk when toFile(outputPath) failed after it began to write
toFileAborted(inputPath, outPath) ==
    {e \in fsFiles : e.path # outPath}
        \cup {[path |-> outPath, data |-> <<"partial">> \o inputPath]}

\* toFile(outputPath) can only resolve when the directory of outputPath exists
\* and outputPath is no directory
toFileCanResolve(outPath) ==
    /\ dirname(outPath) \in fsDirs
    /\ outPath \notin fsDirs

(***************************************************************************)
(* glob.sync('**/*.{jpg,jpeg,png,gif,svg}', { cwd: publicDir, nodir })     *)
(***************************************************************************)
Extensions == {<<".", "j", "p", "g">>, <<".", "j", "p", "e", "g">>,
               <<".", "p", "n", "g">>, <<".", "g", "i", "f">>,
               <<".", "s", "v", "g">>}

\* the pattern: no segment starts with a dot, the name ends in an extension
globMatches(rel) ==
    LET segs == Split(rel)
    IN /\ \A k \in 1..Len(segs) : segs[k] # <<>> /\ segs[k][1] # "."
       /\ \E e \in Extensions : EndsWith(segs[Len(segs)], e)

globSync(files) ==
    LET onDisk(rel) == IsFile(files, join(publicDir, rel)) /\ globMatches(rel)
    IN SelectSeq(WalkOrder, onDisk)


(***************************************************************************)
(* The pieces of main() that the steps below are made of.                  *)
(***************************************************************************)
\* a checkbox prompt without its validate rule
CheckboxAnswersUnvalidated(choices) ==
    {Pick(choices, S) : S \in SUBSET (1..Len(choices))}

\* what an inquirer checkbox prompt can return: the chosen entries in the
\* order of its choices; validate rejects answer.length < 1
CheckboxAnswers(choices) ==
    {Pick(choices, S) : S \in (SUBSET (1..Len(choices))) \ {{}}}

RECURSIVE Unique(_, _)
\* [...new Set(seq)]: the first occurrence of each element, in order
Unique(seq, seen) ==
    IF seq = <<>> THEN <<>>
    ELSE IF Head(seq) \in seen THEN Unique(Tail(seq), seen)
    ELSE <<Head(seq)>> \o Unique(Tail(seq), seen \cup {Head(seq)})

\* const dirs = [...new Set(imageFiles.map(f => path.dirname(f)))]
UniqueDirs(files) == Unique([k \in 1..Len(files) |-> dirname(files[k])], {})

\* a filter on the start of the path: imageFiles.filter(f =>
\* selectedDirs.some(d => f.startsWith(d)))
FilterByDirsPrefix(files, chosen) ==
    LET includes(f) == \E d \in Range(chosen) : StartsWith(f, d)
    IN SelectSeq(files, includes)

\* imageFiles.filter(f => selectedDirs.includes(path.dirname(f)))
FilterByDirs(files, chosen) ==
    LET includes(f) == dirname(f) \in Range(chosen)
    IN SelectSeq(files, includes)

\* a confirmation whose answer is not looked at
CancelledNever(answer) == FALSE

\* if (!confirm): the run is cancelled
Cancelled(answer) == ~answer

\* an iterator that skips an element
NextIndexSkipping(i) == i + 2

\* the for..of iterator moves to the next element of selectedFiles
NextIndex(i) == i + 1

\* const inputPath = path.join(publicDir, file)
InputPath(file) == join(publicDir, file)

\* const baseName = path.basename(file, ext) with ext = path.extname(file)
BaseName(file) == basename(file, extname(file))

\* strategy 'overwrite': outputPath = path.join(publicDir, dir, `${baseName}.webp`)
ResolveOverwrite(file) == join3(publicDir, dirname(file), BaseName(file) \o sWebp)

\* an output directory made inside dir: path.join(dir, suffix)
OutputDirNameInside(dir, sfx) == IF dir = sDot THEN sfx ELSE dir \o sSlash \o sfx

\* strategy 'new_folder': outputDirName
OutputDirName(dir, sfx) == IF dir = sDot THEN sfx ELSE dir \o sfx

\* const outputDirPath = path.join(publicDir, outputDirName)
OutputDirPath(file, sfx) == join(publicDir, OutputDirName(dirname(file), sfx))

\* an output that keeps the name of the input: path.join(outputDirPath,
\* path.basename(file))
ResolveNewFolderSameName(file, sfx) == join(OutputDirPath(file, sfx), lastPortion(file))

\* outputPath = path.join(outputDirPath, `${baseName}.webp`)
ResolveNewFolder(file, sfx) == join(OutputDirPath(file, sfx), BaseName(file) \o sWebp)

\* a catch block that throws the error on
AfterCatchRethrow == "fatal"

\* where main() goes on after the catch block of the loop body
AfterCatch == "loop"

(***************************************************************************)
(* The state when the process starts.                                      *)
(***************************************************************************)
\* the disks the run may start on: public/ missing, or public/ holding the
\* two other files and at most MaxFiles of the candidate image files
InitialDisks ==
    {[root |-> FALSE, rels |-> {}]}
        \cup {[root |-> TRUE, rels |-> {Candidates[k] : k \in S} \cup Range(Others)] :
                S \in {T \in SUBSET (1..Len(Candidates)) : Cardinality(T) <= MaxFiles}}

Init ==
    \E d \in InitialDisks :
        /\ fsFiles = {[path |-> join(publicDir, r), data |-> OrigData(join(publicDir, r))] :
                        r \in d.rels}
        /\ fsDirs = UNION {PathPrefixes(dirname(join(publicDir, r))) : r \in d.rels}
                        \cup PathPrefixes(IF d.root THEN publicDir ELSE cwd)
        /\ pc = "start"
        /\ exitCode = -1
        /\ imageFiles = <<>>
        /\ selectionMode = "none"
        /\ dirs = <<>>
        /\ selectedDirs = <<>>
        /\ selectedFiles = <<>>
        /\ strategy = "none"
        /\ suffix = sOptimized
        /\ confirm = "none"
        /\ idx = 0
        /\ outputPath = <<>>
        /\ successCount = 0
        /\ failCount = 0
        /\ attempts = <<>>
        /\ fatal = <<>>

(***************************************************************************)
(* The steps of main().                                                    *)
(***************************************************************************)
\* !fs.existsSync(publicDir): process.exit(1)
RootMissing ==
    /\ pc = "start"
    /\ ~existsSync(publicDir)
    /\ pc' = "noRoot"
    /\ exitCode' = 1
    /\ UNCHANGED <<fsDirs, fsFiles, imageFiles, selectionMode, dirs, selectedDirs,
                   selectedFiles, strategy, suffix, confirm, idx, outputPath,
                   successCount, failCount, attempts, fatal>>

\* the scan finds nothing: main() returns
NoImages ==
    /\ pc = "start"
    /\ existsSync(publicDir)
    /\ globSync(fsFiles) = <<>>
    /\ imageFiles' = <<>>
    /\ pc' = "noImages"
    /\ exitCode' = 0
    /\ UNCHANGED <<fsDirs, fsFiles, selectionMode, dirs, selectedDirs,
                   selectedFiles, strategy, suffix, confirm, idx, outputPath,
                   successCount, failCount, attempts, fatal>>

\* the scan finds images: the selection mode is asked
Scan ==
    /\ pc = "start"
    /\ existsSync(publicDir)
    /\ globSync(fsFiles) # <<>>
    /\ imageFiles' = globSync(fsFiles)
    /\ pc' = "askMode"
    /\ UNCHANGED <<fsDirs, fsFiles, exitCode, selectionMode, dirs, selectedDirs,
                   selectedFiles, strategy, suffix, confirm, idx, outputPath,
                   successCount, failCount, attempts, fatal>>

\* selectionMode === 'all'
AnswerModeAll ==
    /\ pc = "askMode"
    /\ selectionMode' = "all"
    /\ selectedFiles' = imageFiles
    /\ pc' = "askStrategy"
    /\ UNCHANGED <<fsDirs, fsFiles, exitCode, imageFiles, dirs, selectedDirs,
                   strategy, suffix, confirm, idx, outputPath,
                   successCount, failCount, attempts, fatal>>

\* selectionMode === 'folder': the folder prompt is shown with dirs
AnswerModeFolder ==
    /\ pc = "askMode"
    /\ selectionMode' = "folder"
    /\ dirs' = UniqueDirs(imageFiles)
    /\ pc' = "askDirs"
    /\ UNCHANGED <<fsDirs, fsFiles, exitCode, imageFiles, selectedDirs, selectedFiles,
                   strategy, suffix, confirm, idx, outputPath,
                   successCount, failCount, attempts, fatal>>

\* selectionMode === 'file': the file prompt is shown with imageFiles
AnswerModeFile ==
    /\ pc = "askMode"
    /\ selectionMode' = "file"
    /\ pc' = "askFiles"
    /\ UNCHANGED <<fsDirs, fsFiles, exitCode, imageFiles, dirs, selectedDirs,
                   selectedFiles, strategy, suffix, confirm, idx, outputPath,
                   successCount, failCount, attempts, fatal>>

\* the folder prompt is answered
AnswerDirs ==
    /\ pc = "askDirs"
    /\ \E answer \in CheckboxAnswers(dirs) :
        /\ selectedDirs' = answer
        /\ selectedFiles' = FilterByDirs(imageFiles, answer)
    /\ pc' = "askStrategy"
    /\ UNCHANGED <<fsDirs, fsFiles, exitCode, imageFiles, selectionMode, dirs,
                   strategy, suffix, confirm, idx, outputPath,
                   successCount, failCount, attempts, fatal>>

\* the file prompt is answered
AnswerFiles ==
    /\ pc = "askFiles"
    /\ \E answer \in CheckboxAnswers(imageFiles) :
        selectedFiles' = answer
    /\ pc' = "askStrategy"
    /\ UNCHANGED <<fsDirs, fsFiles, exitCode, imageFiles, selectionMode, dirs,
                   selectedDirs, strategy, suffix, confirm, idx, outputPath,
                   successCount, failCount, attempts, fatal>>

\* strategy === 'new_folder': the suffix is asked
AnswerStrategyNewFolder ==
    /\ pc = "askStrategy"
    /\ strategy' = "new_folder"
    /\ pc' = "askSuffix"
    /\ UNCHANGED <<fsDirs, fsFiles, exitCode, imageFiles, selectionMode, dirs,
                   selectedDirs, selectedFiles, suffix, confirm, idx, outputPath,
                   successCount, failCount, attempts, fatal>>

\* strategy === 'overwrite': suffix keeps '_optimized'
AnswerStrategyOverwrite ==
    /\ pc = "askStrategy"
    /\ strategy' = "overwrite"
    /\ pc' = "askConfirm"
    /\ UNCHANGED <<fsDirs, fsFiles, exitCode, imageFiles, selectionMode, dirs,
                   selectedDirs, selectedFiles, suffix, confirm, idx, outputPath,
                   successCount, failCount, attempts, fatal>>

\* suffix = customSuffix
AnswerSuffix ==
    /\ pc = "askSuffix"
    /\ \E customSuffix \in Suffixes : suffix' = customSuffix
    /\ pc' = "askConfirm"
    /\ UNCHANGED <<fsDirs, fsFiles, exitCode, imageFiles, selectionMode, dirs,
                   selectedDirs, selectedFiles, strategy, confirm, idx, outputPath,
                   successCount, failCount, attempts, fatal>>

\* the confirmation is answered: process.exit(0) on "no", else the loop starts
AnswerConfirm ==
    /\ pc = "askConfirm"
    /\ \E answer \in BOOLEAN :
        /\ confirm' = IF answer THEN "yes" ELSE "no"
        /\ IF Cancelled(answer)
           THEN /\ pc' = "cancelled"
                /\ exitCode' = 0
                /\ UNCHANGED <<idx, successCount, failCount>>
           ELSE /\ pc' = "loop"
                /\ exitCode' = exitCode
                /\ idx' = 1
                /\ successCount' = 0
                /\ failCount' = 0
    /\ UNCHANGED <<fsDirs, fsFiles, imageFiles, selectionMode, dirs,
                   selectedDirs, selectedFiles, strategy, suffix, outputPath,
                   attempts, fatal>>

\* optimizeImage(inputPath, outputPath) is called: sharp starts
callOptimizeImage(file, outPath) ==
    Append(attempts, [input |-> InputPath(file), output |-> outPath, result |-> "pending"])

\* a loop iteration under 'overwrite': the path is resolved, the worker called
IterateOverwrite ==
    /\ pc = "loop"
    /\ idx <= Len(selectedFiles)
    /\ strategy = "overwrite"
    /\ outputPath' = ResolveOverwrite(selectedFiles[idx])
    /\ attempts' = callOptimizeImage(selectedFiles[idx], ResolveOverwrite(selectedFiles[idx]))
    /\ pc' = "optimizeImage"
    /\ UNCHANGED <<fsDirs, fsFiles, exitCode, imageFiles, selectionMode, dirs,
                   selectedDirs, selectedFiles, strategy, suffix, confirm, idx,
                   successCount, failCount, fatal>>

\* a loop iteration under 'new_folder': fs.ensureDir(outputDirPath) is awaited
IterateNewFolder ==
    /\ pc = "loop"
    /\ idx <= Len(selectedFiles)
    /\ strategy # "overwrite"
    /\ pc' = "ensureDir"
    /\ UNCHANGED <<fsDirs, fsFiles, exitCode, imageFiles, selectionMode, dirs,
                   selectedDirs, selectedFiles, strategy, suffix, confirm, idx,
                   outputPath, successCount, failCount, attempts, fatal>>

\* fs.ensureDir resolves: the path is resolved, the worker called
EnsureDirResolves ==
    /\ pc = "ensureDir"
    /\ ~ensureDirRejects(OutputDirPath(selectedFiles[idx], suffix))
    /\ fsDirs' = ensureDirResult(OutputDirPath(selectedFiles[idx], suffix))
    /\ outputPath' = ResolveNewFolder(selectedFiles[idx], suffix)
    /\ attempts' = callOptimizeImage(selectedFiles[idx],
                                     ResolveNewFolder(selectedFiles[idx], suffix))
    /\ pc' = "optimizeImage"
    /\ UNCHANGED <<fsFiles, exitCode, imageFiles, selectionMode, dirs,
                   selectedDirs, selectedFiles, strategy, suffix, confirm, idx,
                   successCount, failCount, fatal>>

\* fs.ensureDir rejects outside every try: main() rejects, main().catch
\* prints the error and calls process.exit(1)
EnsureDirRejects ==
    /\ pc = "ensureDir"
    /\ ensureDirRejects(OutputDirPath(selectedFiles[idx], suffix))
    /\ fatal' = OutputDirPath(selectedFiles[idx], suffix)
    /\ pc' = "fatal"
    /\ exitCode' = 1
    /\ UNCHANGED <<fsDirs, fsFiles, imageFiles, selectionMode, dirs,
                   selectedDirs, selectedFiles, strategy, suffix, confirm, idx,
                   outputPath, successCount, failCount, attempts>>

\* the outcome of the last call of optimizeImage is recorded
settle(result) ==
    [attempts EXCEPT ![Len(attempts)].result = result]

\* optimizeImage returns true: successCount++
OptimizeResolves ==
    /\ pc = "optimizeImage"
    /\ toFileCanResolve(outputPath)
    /\ fsFiles' = toFileResult(InputPath(selectedFiles[idx]), outputPath)
    /\ attempts' = settle("resolved")
    /\ successCount' = successCount + 1
    /\ idx' = NextIndex(idx)
    /\ pc' = "loop"
    /\ UNCHANGED <<fsDirs, exitCode, imageFiles, selectionMode, dirs,
                   selectedDirs, selectedFiles, strategy, suffix, confirm,
                   outputPath, failCount, fatal>>

\* optimizeImage throws (sharp failed on the file): the catch block of the
\* loop reports it, failCount++.  sharp may have failed before it opened the
\* output or after it began to write it.
OptimizeRejects ==
    /\ pc = "optimizeImage"
    /\ \E begun \in BOOLEAN :
        fsFiles' = IF begun /\ toFileCanResolve(outputPath)
                   THEN toFileAborted(InputPath(selectedFiles[idx]), outputPath)
                   ELSE fsFiles
    /\ attempts' = settle("rejected")
    /\ failCount' = failCount + 1
    /\ idx' = NextIndex(idx)
    /\ pc' = AfterCatch
    /\ UNCHANGED <<fsDirs, exitCode, imageFiles, selectionMode, dirs,
                   selectedDirs, selectedFiles, strategy, suffix, confirm,
                   outputPath, successCount, fatal>>

\* the loop is over: the summary is printed and main() returns
Summary ==
    /\ pc = "loop"
    /\ idx > Len(selectedFiles)
    /\ pc' = "summary"
    /\ exitCode' = 0
    /\ UNCHANGED <<fsDirs, fsFiles, imageFiles, selectionMode, dirs,
                   selectedDirs, selectedFiles, strategy, suffix, confirm, idx,
                   outputPath, successCount, failCount, attempts, fatal>>

Next ==
    \/ RootMissing
    \/ NoImages
    \/ Scan
    \/ AnswerModeAll
    \/ AnswerModeFolder
    \/ AnswerModeFile
    \/ AnswerDirs
    \/ AnswerFiles
    \/ AnswerStrategyNewFolder
    \/ AnswerStrategyOverwrite
    \/ AnswerSuffix
    \/ AnswerConfirm
    \/ IterateOverwrite
    \/ IterateNewFolder
    \/ EnsureDirResolves
    \/ EnsureDirRejects
    \/ OptimizeResolves
    \/ OptimizeRejects
    \/ Summary

Spec == Init /\ [][Next]_vars

\* the steps of the loop: each waits for a promise of fs-extra or sharp, or
\* for nothing at all, and is taken once it can be
LoopStep ==
    \/ IterateOverwrite
    \/ IterateNewFolder
    \/ EnsureDirResolves
    \/ EnsureDirRejects
    \/ OptimizeResolves
    \/ OptimizeRejects
    \/ Summary

\* the positions of main() at which a step of the loop can be taken: at
\* "loop" an iteration or the summary, at "ensureDir" the one of its two
\* outcomes that the disk decides, at "optimizeImage" at least the rejection
InLoop == pc \in {"loop", "ensureDir", "optimizeImage"}

\* the run with a loop that does not stop while it has a step to take: weak
\* fairness of LoopStep, with ENABLED <<LoopStep>>_vars written out as InLoop
FairSpec == Spec /\ ([]<>(~InLoop) \/ []<><<LoopStep>>_vars)


(***************************************************************************)
(* What the properties below are stated with.  These are written from the  *)
(* segments of a path, not with the path functions the program calls.      *)
(***************************************************************************)
\* the directory that holds a relative file: '.' for a file directly under
\* the scan root, else the path without its last segment
ContainingDir(rel) ==
    LET segs == Split(rel)
    IN IF Len(segs) = 1 THEN sDot ELSE JoinSegs(SubSeq(segs, 1, Len(segs) - 1))

\* the name of a scanned file without its extension
Stem(rel) ==
    LET segs == Split(rel)
        name == segs[Len(segs)]
        e == CHOOSE x \in Extensions : EndsWith(name, x)
    IN SubSeq(name, 1, Len(name) - Len(e))

\* <root>/<suffix>/<base>.webp or <root>/<dir><suffix>/<base>.webp, as written
NewFolderText(rel, sfx) ==
    IF ContainingDir(rel) = sDot
    THEN publicDir \o sSlash \o sfx \o sSlash \o Stem(rel) \o sWebp
    ELSE publicDir \o sSlash \o ContainingDir(rel) \o sfx \o sSlash \o Stem(rel) \o sWebp

\* path a lies inside directory d, at any depth
Inside(a, d) == StartsWith(a, d \o sSlash)

\* a suffix that is part of a directory name: not empty, no separator, and
\* not one of the names '.' and '..'
PlainSuffix(sfx) ==
    /\ sfx # <<>>
    /\ Positions(sfx, "/") = {}
    /\ sfx # sDot
    /\ sfx # <<".", ".">>

\* the number of calls of optimizeImage that ended with the given result
Count(result) == Cardinality({k \in 1..Len(attempts) : attempts[k].result = result})

\* the loop has been entered
InBatch == pc \in {"loop", "ensureDir", "optimizeImage", "summary", "fatal"}

\* nothing on disk has been created or changed since the process started
DiskUntouched ==
    /\ \A e \in fsFiles : e.data = OrigData(e.path)
    /\ fsDirs = UNION {PathPrefixes(dirname(e.path)) : e \in fsFiles}
                    \cup PathPrefixes(IF publicDir \in fsDirs THEN publicDir ELSE cwd)

\* the files the run has written
Written == {e \in fsFiles : e.data # OrigData(e.path)}

(***************************************************************************)
(* C1  Batch Runner fault isolation.                                       *)
(***************************************************************************)
\* In every state failCount is the number of conversions that failed and
\* successCount the number that succeeded; at the summary every selected file
\* has been converted once, succeeded = selected - failed, and the output of
\* every conversion that did not fail is a file on disk.  A conversion that
\* fails never ends the run: only a rejected directory creation does.
C1_Counts ==
    /\ failCount = Count("rejected")
    /\ successCount = Count("resolved")
    /\ pc = "fatal" => fatal # <<>>
    /\ pc = "summary" =>
        /\ Len(attempts) = Len(selectedFiles)
        /\ successCount = Len(selectedFiles) - failCount
        /\ \A k \in 1..Len(attempts) :
            /\ attempts[k].input = publicDir \o sSlash \o selectedFiles[k]
            /\ attempts[k].result \in {"resolved", "rejected"}
            /\ attempts[k].result = "resolved" => IsFile(fsFiles, attempts[k].output)

\* C1: the step that ends a conversion, failed or not, leads to the next
\* iteration of the loop
C1_Continues == (pc = "optimizeImage") => (pc' = "loop" /\ idx' = idx + 1)

\* C1: once the run is confirmed it reaches the summary, or the fatal exit
\* that only a rejected directory creation leads to; under 'overwrite', where
\* no directory is created, it always reaches the summary
C1_Reaches ==
    /\ (confirm = "yes") ~> (pc = "summary" \/ (pc = "fatal" /\ fatal # <<>>))
    /\ (confirm = "yes" /\ strategy = "overwrite") ~> (pc = "summary")

\* C1: fault isolation of the batch: counts, continuation and arrival at the
\* summary together
C1_FaultIsolation == []C1_Counts /\ [][C1_Continues]_vars /\ C1_Reaches

C1_Witness ==
    /\ pc = "summary"
    /\ Len(selectedFiles) = 3
    /\ failCount = 1
    /\ successCount = 2
    /\ attempts[2].result = "rejected"

(***************************************************************************)
(* C2  A failed creation of the output directory is file-scoped.           *)
(***************************************************************************)
\* C2: whenever the creation of an output directory has failed, the failure
\* is counted for that file and the run is not aborted.
C2_DirFailureIsFileScoped ==
    (fatal # <<>>) => (pc # "fatal" /\ exitCode # 1 /\ failCount >= 1)

(***************************************************************************)
(* C3  Vector files never reach the Conversion Worker.                     *)
(***************************************************************************)
IsSvg(p) == EndsWith(p, <<".", "s", "v", "g">>)

\* C3: no .svg file is passed to optimizeImage, and the two counters together
\* never exceed the number of selected files that are not .svg.
C3_SvgNeverConverted ==
    /\ \A k \in 1..Len(attempts) : ~IsSvg(attempts[k].input)
    /\ InBatch => successCount + failCount
                    <= Cardinality({k \in 1..Len(selectedFiles) : ~IsSvg(selectedFiles[k])})

(***************************************************************************)
(* C4  Path Resolver under NewFolder(suffix).                              *)
(***************************************************************************)
\* the file whose output path has been resolved
Current == selectedFiles[idx]

Resolved == pc = "optimizeImage" /\ strategy = "new_folder"

C5_OriginalsKept ==
    \A k \in 1..Len(imageFiles) :
        LET p == publicDir \o sSlash \o imageFiles[k]
        IN [path |-> p, data |-> OrigData(p)] \in fsFiles

\* no step removes a file or a directory, or changes a scanned file
C5_OnlyAdds ==
    /\ {e.path : e \in fsFiles} \subseteq {e.path : e \in fsFiles'}
    /\ fsDirs \subseteq fsDirs'
    /\ \A e \in fsFiles : (\E k \in 1..Len(imageFiles) :
            e.path = publicDir \o sSlash \o imageFiles[k]) => e \in fsFiles'

\* C5: under both strategies and every suffix, the empty one included, the
\* scanned files keep their path and content and no path is removed.
C5_OriginalsUntouched == []C5_OriginalsKept /\ [][C5_OnlyAdds]_vars

C5_Witness ==
    /\ pc = "summary"
    /\ strategy = "new_folder"
    /\ suffix = <<>>
    /\ successCount >= 2

(***************************************************************************)
(* C6  ByFolder selection is a membership filter.                          *)
(***************************************************************************)
\* C6: once the folder prompt is shown, its choices are the containing
\* directories of the scanned files, each once; once it is answered, the
\* selected list is the scan result restricted, in scan order, to the files
\* whose containing directory is among the chosen ones.
C6_ByFolderFilter ==
    selectionMode = "folder" /\ pc # "askMode" =>
        /\ Range(dirs) = {ContainingDir(imageFiles[k]) : k \in 1..Len(imageFiles)}
        /\ Cardinality(Range(dirs)) = Len(dirs)
        /\ pc # "askDirs" =>
            /\ Range(selectedDirs) \subseteq Range(dirs)
            /\ LET chosen(f) == ContainingDir(f) \in Range(selectedDirs)
               IN selectedFiles = SelectSeq(imageFiles, chosen)

C6_Witness ==
    /\ selectionMode = "folder"
    /\ pc = "askStrategy"
    /\ Range(selectedDirs) = {sDot, <<"i", "m", "a", "g", "e", "s">>}
    /\ Len(imageFiles) = 3
    /\ Len(selectedFiles) = 2

(***************************************************************************)
(* C7  A "no" at the confirmation touches nothing and exits with 0.        *)
(***************************************************************************)
\* C7: up to the answer of the confirmation prompt nothing on disk is created
\* or changed and no conversion is called; after a "no" the process has exited
\* with status 0 and it stays so.
C7_CancelTouchesNothing ==
    /\ (~InBatch) => (DiskUntouched /\ attempts = <<>>)
    /\ confirm = "no" => (pc = "cancelled" /\ exitCode = 0)
    /\ pc = "cancelled" => (confirm = "no" /\ ~ENABLED Next)

C7_Witness ==
    /\ pc = "cancelled"
    /\ selectionMode = "folder"
    /\ strategy = "new_folder"
    /\ suffix = sShort

(***************************************************************************)
(* C8  The loop never starts with no file.                                 *)
(***************************************************************************)
\* C8: whenever the loop has been entered, the selected list is not empty and
\* each of its files is a file of the scan result, whatever the scope.
C8_NonEmptySelection ==
    InBatch =>
        /\ selectedFiles # <<>>
        /\ Range(selectedFiles) \subseteq Range(imageFiles)
        /\ selectionMode \in {"all", "folder", "file"}

C8_Witness ==
    /\ pc = "loop"
    /\ idx = 1
    /\ selectionMode = "file"
    /\ Len(selectedFiles) < Len(imageFiles)

(***************************************************************************)
(* C9  The loop is sequential and keeps the order of the selection.        *)
(***************************************************************************)
\* C9: the conversions called so far are those of the first files of the
\* selected list, one each and in its order; a conversion is pending only as
\* the last call and only while the loop waits for it, so the next file is
\* resolved and converted only after it has ended; at the summary every
\* selected file has been converted.
C9_Sequential ==
    /\ Len(attempts) <= Len(selectedFiles)
    /\ \A k \in 1..Len(attempts) :
        /\ attempts[k].input = publicDir \o sSlash \o selectedFiles[k]
        /\ attempts[k].result = "pending" => (k = Len(attempts) /\ pc = "optimizeImage")
    /\ Count("pending") <= 1
    /\ pc = "optimizeImage" => (Len(attempts) = idx /\ attempts[idx].result = "pending")
    /\ pc \in {"loop", "ensureDir"} => (Len(attempts) = idx - 1 /\ Count("pending") = 0)
    /\ pc = "summary" => Len(attempts) = Len(selectedFiles)

C9_Witness ==
    /\ pc = "optimizeImage"
    /\ idx = 3
    /\ attempts[1].result = "rejected"
    /\ attempts[2].result = "resolved"
    /\ selectionMode = "file"

(***************************************************************************)
(* C10  Output paths of one run are distinct.                              *)
(***************************************************************************)
\* C10: two conversions of one run never have the same output path, and at
\* the summary the run has written as many files as it counts successes.
C10_OutputsDistinct ==
    /\ \A j, k \in 1..Len(attempts) : j # k => attempts[j].output # attempts[k].output
    /\ pc = "summary" => Cardinality(Written) = successCount

====
